---- MODULE Spec2Model ----
(***************************************************************************)
(* A model of bgzf_rust_reader (src/src/lib.rs): the block parser          *)
(* read_block, the index construction loop of BgzfReader::new, and the     *)
(* reader operations seek and read with the single-slot block cache.       *)
(*                                                                         *)
(* The file is a sequence of bytes; the parser and the reader address it   *)
(* by byte offset exactly as the source does.  Arithmetic on u16 keeps     *)
(* its width.  Rust's integer overflow depends on the build profile        *)
(* (panic with overflow checks, wrap-around without); the profile is the   *)
(* variable overflow_checks, fixed for a run.  A panic ends the run.       *)
(*                                                                         *)
(* A call of read is one step, from pc = "ready" to pc = "returned"; op,   *)
(* ret, out, dlog and io then hold the call, its result and what it did.   *)
(* The step Return is the caller dropping them before its next call.       *)
(***************************************************************************)
EXTENDS Integers, Sequences, FiniteSets, TLC

\* ------------------------------------------------------------ bounds
\* Largest number of data blocks in a generated file.
MaxBlocks == 2
\* Largest uncompressed length of a generated data block.
MaxBlockLen == 2
\* Largest capacity of a destination buffer handed to read.
MaxBuf == 2

\* ------------------------------------------------------------ integers
U16 == 65536
\* usize/u64 wrap-around modulus.  TLC's integers are 32 bits wide, so the
\* 64-bit modulus is represented by 2^30: every length and offset of the model
\* is below 2^17, hence a wrapped difference compares with every such value the
\* way the 64-bit one does (it is larger than all of them).
UsizeMod == 1073741824

Min(a, b) == IF a < b THEN a ELSE b

Range(s) == {s[i] : i \in 1..Len(s)}

RECURSIVE SumSeq(_)
SumSeq(s) == IF s = <<>> THEN 0 ELSE s[1] + SumSeq(Tail(s))

RECURSIVE Flatten(_)
Flatten(ss) == IF ss = <<>> THEN <<>> ELSE ss[1] \o Flatten(Tail(ss))

\* n copies of x.
Repeat(x, n) == [i \in 1..n |-> x]

\* Little-endian encodings used by the file generator.
LE16(v) == <<v % 256, (v \div 256) % 256>>
LE32(v) == <<v % 256, (v \div 256) % 256, (v \div 65536) % 256, (v \div 16777216) % 256>>

\* ------------------------------------------------------------ decompressor
\* The single-shot DEFLATE decompressor is an external collaborator.  It is
\* modelled by a byte code with the same interface and the same three
\* outcomes: a compressed byte 0 is malformed input (BadData); any other
\* compressed byte c stands for the literal c - 1; output that does not fit
\* the pre-sized buffer is InsufficientSpace; otherwise the number of bytes
\* produced is returned, which may be less than the buffer's size.
Encode(data) == [i \in 1..Len(data) |-> data[i] + 1]

DecodeBytes(compressed) == [i \in 1..Len(compressed) |-> compressed[i] - 1]

deflate_decompress(compressed, out_len) ==
  IF 0 \in Range(compressed) THEN [tag |-> "Err", n |-> 0, data |-> <<>>]
  ELSE IF Len(compressed) > out_len THEN [tag |-> "Err", n |-> 0, data |-> <<>>]
  ELSE [tag |-> "Ok", n |-> Len(compressed),
        data |-> DecodeBytes(compressed) \o Repeat(0, out_len - Len(compressed))]

\* ------------------------------------------------------------ files
\* One block as laid out on disk: 12 header bytes, XLEN bytes of extra field,
\* the payload, CRC32 (ignored) and ISIZE.
MkBlock(m0, xlen, extra, payload, isize) ==
  <<m0, 139, 8, 4, 0, 0, 0, 0, 0, 255>> \o LE16(xlen) \o extra \o payload
    \o <<0, 0, 0, 0>> \o LE32(isize)

\* The BC subfield followed by padding up to xlen bytes (cut when xlen < 6).
ExtraField(si1, si2, slen, bsize, xlen) ==
  SubSeq(<<si1, si2>> \o LE16(slen) \o LE16(bsize) \o Repeat(0, xlen), 1, xlen)

\* A block whose header fields agree with its layout.
WellFormedBlock(xlen, payload, isize) ==
  MkBlock(31, xlen, ExtraField(66, 67, 2, xlen + Len(payload) + 19, xlen), payload, isize)

\* The logical bytes of a data block that starts at uncompressed offset g.
BlockData(g, n) == [i \in 1..n |-> 65 + g + i - 1]

\* Payload and ISIZE of a data block of declared length n, by kind:
\*   ok    the payload decodes to exactly n bytes;
\*   short the payload decodes to n - 1 bytes (0 bytes when n = 1);
\*   long  the payload decodes to n + 1 bytes;
\*   bad   the payload is malformed.
BlockKinds == {"ok", "short", "long", "bad"}

Payload(kind, g, n) ==
  CASE kind = "ok" -> Encode(BlockData(g, n))
    [] kind = "short" -> Encode(BlockData(g, n - 1))
    [] kind = "long" -> Encode(BlockData(g, n + 1))
    [] OTHER -> <<0>>

DataBlock(kind, g, n) == WellFormedBlock(6, Payload(kind, g, n), n)

\* What follows the data blocks.
TailKinds == {"eof", "terminal", "magic", "si", "slen", "xlen0", "xlen3", "bsize", "cut"}

TailBytes(t) ==
  CASE t = "eof" -> <<>>
    [] t = "terminal" -> WellFormedBlock(6, <<3, 0>>, 0)
    [] t = "magic" -> MkBlock(30, 6, ExtraField(66, 67, 2, 26, 6), <<66>>, 1)
    [] t = "si" -> MkBlock(31, 6, ExtraField(66, 68, 2, 26, 6), <<66>>, 1)
    [] t = "slen" -> MkBlock(31, 6, ExtraField(66, 67, 3, 26, 6), <<66>>, 1)
    [] t = "xlen0" -> MkBlock(31, 0, <<>>, <<66>>, 1)
    [] t = "xlen3" -> MkBlock(31, 3, ExtraField(66, 67, 2, 23, 3), <<66>>, 1)
    [] t = "bsize" -> MkBlock(31, 6, ExtraField(66, 67, 2, 20, 6), <<66>>, 1)
    [] OTHER -> SubSeq(WellFormedBlock(6, <<66>>, 1), 1, 20)

\* The sequences of block lengths of a file: up to MaxBlocks lengths in 1..MaxBlockLen.
LengthSeqs == UNION {[1..k -> 1..MaxBlockLen] : k \in 0..MaxBlocks}

\* Uncompressed offset of block i of a file with block lengths lens.
StartOf(lens, i) == SumSeq(SubSeq(lens, 1, i - 1))

\* A file: data blocks of lengths lens, block number fault (0: none) of kind
\* kind and every other one ok, then the tail t.
MkFile(lens, fault, kind, t) ==
  Flatten([i \in 1..Len(lens) |->
             DataBlock(IF i = fault THEN kind ELSE "ok", StartOf(lens, i), lens[i])])
    \o TailBytes(t)

\* The tails of the files the reader is run on; the other tails differ from
\* these only in which parse error ends the index.
ReaderTails == {"eof", "terminal", "magic", "xlen0"}

Files ==
  {MkFile(lens, 0, "ok", t) : lens \in LengthSeqs, t \in ReaderTails}
    \cup UNION {{MkFile(lens, f, k, "terminal") : f \in 1..Len(lens), k \in BlockKinds \ {"ok"}}
                  : lens \in LengthSeqs}

\* ------------------------------------------------------------ state
VARIABLES
  exists,                 \* the path names a file that can be opened
  file,                   \* bgzf_file: the bytes of the file
  overflow_checks,        \* build profile: arithmetic overflow panics (TRUE) or wraps
  pc,                     \* "open", "loop" (inside new), "ready", "returned" (from
                          \* read), "failed" (new returned Err), "aborted" (panic)
  block_tree,             \* BTreeMap<u64, BgzfBlock>: uncompressed offset -> block
  input_offset,           \* new's running uncompressed offset
  current_file_position,  \* new's running file offset
  input_length,           \* BgzfReader.input_length
  current_read_position,  \* BgzfReader.current_read_position
  pos,                    \* BgzfReader.pos
  cache,                  \* Option<Cache>: <<>> is None, <<c>> is Some(c)
  op,                     \* the call that has just returned, with its arguments
  ret,                    \* what it returned
  out,                    \* the destination buffer after it
  dlog,                   \* keys of the blocks it handed to the decompressor, in order
  io,                     \* number of file reads it performed
  chunks,                 \* the bytes returned by successive reads from position 0
  last                    \* the block the previous read was served from

vars == <<exists, file, overflow_checks, pc, block_tree, input_offset,
          current_file_position, input_length, current_read_position, pos, cache,
          op, ret, out, dlog, io, chunks, last>>

\* ------------------------------------------------------------ file reads
\* positioned_io's read_exact_at: n bytes at offset, or an error when the file
\* ends before; a read of no bytes succeeds at any offset.
ReadOk(f, offset, n) == n = 0 \/ offset + n <= Len(f)

ReadBytes(f, offset, n) == SubSeq(f, offset + 1, offset + n)

\* ------------------------------------------------------------ read_block
BgzfBlock(data_offset, data_length, input_len, block_size) ==
  [data_offset |-> data_offset, data_length |-> data_length,
   input_length |-> input_len, block_size |-> block_size]

NoBlock == BgzfBlock(0, 0, 0, 0)

\* Result<Option<BgzfBlock>, _>, or a panic.
BlockSome(b) == [tag |-> "Some", msg |-> "", block |-> b]
BlockNone == [tag |-> "None", msg |-> "", block |-> NoBlock]
BlockErr(m) == [tag |-> "Err", msg |-> m, block |-> NoBlock]
BlockPanic(m) == [tag |-> "Panic", msg |-> m, block |-> NoBlock]

\* bsize - xlen - 19 in u16.
DataLengthOverflows(bsize, xlen) == bsize < xlen \/ bsize - xlen < 19

DataLength(bsize, xlen) == (bsize - xlen - 19 + 2 * U16) % U16

\* The footer: ISIZE at data_offset + data_length + 4.
ReadFooter(f, data_offset, data_length, block_size) ==
  LET isize_at == data_offset + data_length + 4 IN
  IF ~ReadOk(f, isize_at, 4) THEN BlockErr("io")
  ELSE LET buf_isize == ReadBytes(f, isize_at, 4)
           i_size == buf_isize[1] + buf_isize[2] * 256 + buf_isize[3] * 65536
                       + buf_isize[4] * 16777216
       IN IF i_size = 0 THEN BlockNone
          ELSE BlockSome(BgzfBlock(data_offset, data_length, i_size, block_size))

\* The extra field: subfield identifier, subfield length, BSIZE.
ReadExtra(f, chk, after_header, xlen) ==
  LET buf_xlen == ReadBytes(f, after_header, xlen)
      data_offset == after_header + xlen
  IN IF xlen < 1 THEN BlockPanic("index out of bounds")
     ELSE IF buf_xlen[1] # 66 THEN BlockErr("Bad subfield Identifier")
     ELSE IF xlen < 2 THEN BlockPanic("index out of bounds")
     ELSE IF buf_xlen[2] # 67 THEN BlockErr("Bad subfield Identifier")
     ELSE IF xlen < 4 THEN BlockPanic("index out of bounds")
     ELSE IF buf_xlen[3] + buf_xlen[4] * 256 # 2 THEN BlockErr("Bad subfield Length")
     ELSE IF xlen < 6 THEN BlockPanic("index out of bounds")
     ELSE LET bsize == buf_xlen[5] + buf_xlen[6] * 256 IN
          IF DataLengthOverflows(bsize, xlen) /\ chk
          THEN BlockPanic("attempt to subtract with overflow")
          ELSE ReadFooter(f, data_offset, DataLength(bsize, xlen), bsize + 1)

read_block(f, chk, file_position) ==
  IF ~ReadOk(f, file_position, 12) THEN BlockErr("io")
  ELSE LET buf == ReadBytes(f, file_position, 12) IN
       IF buf[1] # 31 \/ buf[2] # 139 \/ buf[3] # 8 \/ buf[4] # 4
       THEN BlockErr("Incorrect header")
       ELSE LET xlen == buf[11] + buf[12] * 256 IN
            IF ~ReadOk(f, file_position + 12, xlen) THEN BlockErr("io")
            ELSE ReadExtra(f, chk, file_position + 12, xlen)

\* ------------------------------------------------------------ call records
\* No call has just returned.
NoOp == [name |-> "none", b |-> <<>>, off |-> 0, len |-> 0, p |-> 0]

\* Result<i32, _>, or a panic.
Ok(n) == [tag |-> "Ok", n |-> n, msg |-> ""]
Err(m) == [tag |-> "Err", n |-> 0, msg |-> m]
Panic(m) == [tag |-> "Panic", n |-> 0, msg |-> m]
NoRet == [tag |-> "None", n |-> 0, msg |-> ""]

\* The record of successive reads: valid while every call since construction
\* was a read that filled its whole buffer, and then the bytes read so far.
NoChunks == [valid |-> FALSE, bytes |-> <<>>]

\* The record of the previous call: when it was a read of length > 0 whose
\* range lay inside one block, that block's key, the kind of result the read
\* returned and the number of times it invoked the decompressor; block -1
\* otherwise.
NoLast == [block |-> -1, tag |-> "None", decompressions |-> 0]

None == <<>>
Some(c) == <<c>>

\* Mutant of Cache: the block is stored under the offset of its end.
Cache_AtBlockEnd(pos_, uncompressed_data) ==
  [pos |-> pos_ + Len(uncompressed_data), uncompressed_data |-> uncompressed_data]

\* Cache { pos, uncompressed_data }
Cache(pos_, uncompressed_data) == [pos |-> pos_, uncompressed_data |-> uncompressed_data]

\* ------------------------------------------------------------ BgzfReader::new
Init ==
  /\ \/ exists = TRUE /\ file \in Files
     \/ exists = FALSE /\ file = <<>>
  /\ overflow_checks \in BOOLEAN
  /\ pc = "open"
  /\ block_tree = <<>>
  /\ input_offset = 0
  /\ current_file_position = 0
  /\ input_length = 0
  /\ current_read_position = 0
  /\ pos = 0
  /\ cache = None
  /\ op = NoOp
  /\ ret = NoRet
  /\ out = <<>>
  /\ dlog = <<>>
  /\ io = 0
  /\ chunks = NoChunks
  /\ last = NoLast

ReaderVars == <<input_length, current_read_position, pos, cache>>
CallVars == <<op, ret, out, dlog, io>>
HistoryVars == <<chunks, last>>
FileVars == <<exists, file, overflow_checks>>

\* File::open(file_path)?
NewOpen ==
  /\ pc = "open"
  /\ pc' = IF exists THEN "loop" ELSE "failed"
  /\ UNCHANGED <<FileVars, block_tree, input_offset, current_file_position,
                 ReaderVars, CallVars, HistoryVars>>

\* Mutant of NextInputOffset: the uncompressed offset advances by the block's
\* size on disk.
NextInputOffset_BlockSize(offset, block) == offset + block.block_size

\* input_offset += u64::from(input_length_block)
NextInputOffset(offset, block) == offset + block.input_length

\* Mutant of NextFilePosition: the file offset stays where it is.
NextFilePosition_Stay(position, block) == position

\* current_file_position += u64::from(block_size_block)
NextFilePosition(position, block) == position + block.block_size

\* One iteration of the loop that finds a block: it is inserted.
NewInsert ==
  /\ pc = "loop"
  /\ LET r == read_block(file, overflow_checks, current_file_position) IN
     /\ r.tag = "Some"
     /\ block_tree' = (input_offset :> r.block) @@ block_tree
     /\ input_offset' = NextInputOffset(input_offset, r.block)
     /\ current_file_position' = NextFilePosition(current_file_position, r.block)
  /\ UNCHANGED <<FileVars, pc, ReaderVars, CallVars, HistoryVars>>

\* The iteration that breaks, on the terminal block or on any error, and the
\* construction of the reader after the loop.
NewBreak ==
  /\ pc = "loop"
  /\ read_block(file, overflow_checks, current_file_position).tag \in {"None", "Err"}
  /\ pc' = "ready"
  /\ input_length' = input_offset
  /\ current_read_position' = 0
  /\ pos' = 0
  /\ cache' = None
  /\ chunks' = [valid |-> TRUE, bytes |-> <<>>]
  /\ UNCHANGED <<FileVars, block_tree, input_offset, current_file_position,
                 CallVars, last>>

\* An iteration in which read_block panics.
NewPanic ==
  /\ pc = "loop"
  /\ read_block(file, overflow_checks, current_file_position).tag = "Panic"
  /\ pc' = "aborted"
  /\ UNCHANGED <<FileVars, block_tree, input_offset, current_file_position,
                 ReaderVars, CallVars, HistoryVars>>

\* ------------------------------------------------------------ BgzfReader::seek
\* The record of a seek: its argument.
SeekOp(p) == [name |-> "seek", b |-> <<>>, off |-> 0, len |-> 0, p |-> p]

\* Mutant of Seek: a position beyond the total length is clamped to it.
Seek_Clamped(p) ==
  /\ pc = "ready"
  /\ pos' = IF p > input_length THEN input_length ELSE p
  /\ op' = SeekOp(p)
  /\ chunks' = NoChunks
  /\ last' = NoLast
  /\ UNCHANGED <<FileVars, pc, block_tree, input_offset, current_file_position,
                 input_length, current_read_position, cache, ret, out, dlog, io>>

\* self.pos.set(pos)
Seek(p) ==
  /\ pc = "ready"
  /\ pos' = p
  /\ op' = SeekOp(p)
  /\ chunks' = NoChunks
  /\ last' = NoLast
  /\ UNCHANGED <<FileVars, pc, block_tree, input_offset, current_file_position,
                 input_length, current_read_position, cache, ret, out, dlog, io>>

\* ------------------------------------------------------------ BgzfReader::read
\* The locals of one read call: destination buffer, output cursor, remaining
\* length, bytes copied, and the reader fields the call changes.
Locals(b, off, len, p, c) ==
  [b |-> b, off |-> off, len |-> len, cb |-> 0, pos |-> p, cache |-> c,
   dlog |-> <<>>, io |-> 0]

\* How a call ends: the value returned and what it leaves behind.
Outcome(r, st) ==
  [ret |-> r, b |-> st.b, pos |-> st.pos, cache |-> st.cache, dlog |-> st.dlog,
   io |-> st.io]

\* b[off..].copy_from_slice(&data[copy_start..end_index]) does not panic: both
\* ranges lie inside their vectors and the two slices have the same length.
CopyOk(b, off, data, copy_start, end_index) ==
  /\ off <= Len(b)
  /\ copy_start <= end_index
  /\ end_index <= Len(data)
  /\ Len(b) - off = end_index - copy_start

\* The copy and the updates of cb, off, len and pos that follow it.
CopyAndAdvance(st, data, copy_start, copy_length) ==
  [st EXCEPT !.b = SubSeq(st.b, 1, st.off)
                     \o SubSeq(data, copy_start + 1, copy_start + copy_length),
             !.cb = @ + copy_length,
             !.off = @ + copy_length,
             !.len = @ - copy_length,
             !.pos = @ + copy_length]

\* Keys of a set in ascending order.
RECURSIVE Ascending(_)
Ascending(S) ==
  IF S = {} THEN <<>>
  ELSE LET m == CHOOSE x \in S : \A y \in S : x <= y IN <<m>> \o Ascending(S \ {m})

\* block_tree.range(..p).next_back(): the keys below p; the caller unwraps the
\* greatest.
KeysBelow(tree, p) == {k \in DOMAIN tree : k < p}

Greatest(S) == CHOOSE x \in S : \A y \in S : y <= x

\* The floor lookup panics: p is no key and no key lies below it.
FloorMissing(tree, p) == p \notin DOMAIN tree /\ KeysBelow(tree, p) = {}

\* entry_vector: the floor block when p is no key, then every block with a key
\* in [p, p + len).
EntryVector(tree, p, len) ==
  (IF p \notin DOMAIN tree
   THEN LET k == Greatest(KeysBelow(tree, p)) IN <<[key |-> k, value |-> tree[k]]>>
   ELSE <<>>)
    \o LET ks == Ascending({k \in DOMAIN tree : p <= k /\ k < p + len})
       IN [i \in 1..Len(ks) |-> [key |-> ks[i], value |-> tree[ks[i]]]]

\* The copy window of a decompressed block and the copy itself.
CopyBlock(st, entry, uncompressed) ==
  LET block == entry.value
      copy_skip == IF entry.key < st.pos THEN st.pos - entry.key ELSE 0
      copy_start == copy_skip
  IN \* copy_length -= copy_skip as u32 underflows when the position lies beyond
     \* the block: a panic with overflow checks; without them copy_start lies
     \* beyond the block's data and the slice panics.
     IF copy_skip > block.input_length THEN [ok |-> FALSE, st |-> st]
     ELSE LET copy_length == Min(block.input_length - copy_skip, st.len)
              end_index == copy_start + copy_length
          IN IF CopyOk(st.b, st.off, uncompressed, copy_start, end_index)
             THEN [ok |-> TRUE, st |-> CopyAndAdvance(st, uncompressed, copy_start, copy_length)]
             ELSE [ok |-> FALSE, st |-> st]

\* Mutant of DecodeFailed: only an empty result is rejected.
DecodeFailed_ZeroOnly(bytes_decompressed, input_len) == bytes_decompressed = 0

\* bytes_decompressed == 0 || bytes_decompressed != block.input_length as usize
DecodeFailed(bytes_decompressed, input_len) ==
  bytes_decompressed = 0 \/ bytes_decompressed # input_len

\* The loop over entry_vector.
RECURSIVE ReadBlocks(_, _, _)
ReadBlocks(f, entries, st) ==
  IF entries = <<>> THEN Outcome(Ok(st.cb), st)
  ELSE LET entry == Head(entries)
           block == entry.value
           st1 == [st EXCEPT !.io = @ + 1]
       IN IF ~ReadOk(f, block.data_offset, block.data_length)
          THEN Outcome(Err("io"), st1)
          ELSE LET compressed == ReadBytes(f, block.data_offset, block.data_length)
                   d == deflate_decompress(compressed, block.input_length)
                   st2 == [st1 EXCEPT !.dlog = Append(@, entry.key)]
               IN IF d.tag = "Err" THEN Outcome(Err("decompress"), st2)
                  ELSE IF DecodeFailed(d.n, block.input_length)
                  THEN Outcome(Err("Did not fully de-compress"), st2)
                  ELSE LET st3 == [st2 EXCEPT !.cache =
                                     Some(Cache(entry.key, d.data))]
                           c == CopyBlock(st3, entry, d.data)
                       IN IF ~c.ok THEN Outcome(Panic("copy"), st3)
                          ELSE ReadBlocks(f, Tail(entries), c.st)

\* Index resolution and the block loop.
ReadFromIndex(f, tree, st) ==
  IF FloorMissing(tree, st.pos) THEN Outcome(Panic("unwrap on None"), st)
  ELSE ReadBlocks(f, EntryVector(tree, st.pos, st.len), st)

\* cache.pos as usize + cache.uncompressed_data.len() - self.pos.get() as usize
BytesAvailableOverflows(c, p) == c.pos + Len(c.uncompressed_data) < p

BytesAvailable(c, p) ==
  IF BytesAvailableOverflows(c, p)
  THEN c.pos + Len(c.uncompressed_data) - p + UsizeMod
  ELSE c.pos + Len(c.uncompressed_data) - p

\* Mutant of CacheHit: a position at the very start of the cached block misses.
CacheHit_PastStart(c, p, chk) ==
  /\ c # None
  /\ p > c[1].pos
  /\ ~(BytesAvailableOverflows(c[1], p) /\ chk)
  /\ BytesAvailable(c[1], p) > 0

\* The cache arm is taken and copies: the cache is populated, the position is
\* not before the cached block and some cached byte is available.
CacheHit(c, p, chk) ==
  /\ c # None
  /\ p >= c[1].pos
  /\ ~(BytesAvailableOverflows(c[1], p) /\ chk)
  /\ BytesAvailable(c[1], p) > 0

\* The cache fast path, then the index.
ReadFromCache(f, chk, tree, st) ==
  IF st.cache # None /\ st.pos >= st.cache[1].pos
       /\ BytesAvailableOverflows(st.cache[1], st.pos) /\ chk
  THEN Outcome(Panic("attempt to subtract with overflow"), st)
  ELSE IF CacheHit(st.cache, st.pos, chk)
  THEN LET c == st.cache[1]
           copy_start == st.pos - c.pos
           copy_length == Min(BytesAvailable(c, st.pos), st.len)
           end_index == copy_start + copy_length
       IN IF ~CopyOk(st.b, st.off, c.uncompressed_data, copy_start, end_index)
          THEN Outcome(Panic("copy"), st)
          ELSE LET st1 == CopyAndAdvance(st, c.uncompressed_data, copy_start, copy_length)
               IN IF st1.len = 0 THEN Outcome(Ok(st1.cb), st1)
                  ELSE ReadFromIndex(f, tree, st1)
  ELSE ReadFromIndex(f, tree, st)

\* len > b.len() - off
WindowOverflows(b, off) == Len(b) < off

Window(b, off) == IF Len(b) < off THEN Len(b) - off + UsizeMod ELSE Len(b) - off

\* Mutant of EmptyBuffer: the empty buffer is not rejected.
EmptyBuffer_Never(b) == FALSE

\* b.len() == 0
EmptyBuffer(b) == Len(b) = 0

\* Mutant of AtEnd: the position equal to the total length is not the end.
AtEnd_Strict(p, total) == p > total

\* self.pos.get() >= self.input_length
AtEnd(p, total) == p >= total

\* read(b, off, len) on a reader with the given fields.
read(f, chk, tree, total, p, c, b, off, len) ==
  LET st == Locals(b, off, len, p, c) IN
  IF EmptyBuffer(b) THEN Outcome(Err("Buffer size needs to be greater than 0"), st)
  ELSE IF WindowOverflows(b, off) /\ chk
  THEN Outcome(Panic("attempt to subtract with overflow"), st)
  ELSE IF len > Window(b, off) THEN Outcome(Err("Index out of bound exception"), st)
  ELSE IF len = 0 THEN Outcome(Ok(0), st)
  ELSE IF AtEnd(p, total) THEN Outcome(Ok(-1), st)
  ELSE ReadFromCache(f, chk, tree, st)

\* A fresh destination buffer: vec![0; cap].
Buffers == {Repeat(0, cap) : cap \in 0..MaxBuf}

\* [p, p + len) lies inside the block of tree with key k.
InBlock(tree, k, p, len) == k <= p /\ p + len <= k + tree[k].input_length

Call(name, b, off, len) ==
  /\ pc = "ready"
  /\ LET r == read(file, overflow_checks, block_tree, input_length, pos, cache, b, off, len)
     IN /\ op' = [name |-> name, b |-> b, off |-> off, len |-> len, p |-> pos]
        /\ ret' = r.ret
        /\ out' = r.b
        /\ pos' = r.pos
        /\ cache' = r.cache
        /\ dlog' = r.dlog
        /\ io' = r.io
        /\ chunks' = IF chunks.valid /\ off = 0 /\ len = Len(b) /\ r.ret = Ok(len)
                      THEN [valid |-> TRUE, bytes |-> chunks.bytes \o r.b]
                      ELSE NoChunks
        /\ last' = IF len > 0 /\ \E k \in DOMAIN block_tree : InBlock(block_tree, k, pos, len)
                    THEN [block |-> CHOOSE k \in DOMAIN block_tree :
                                      InBlock(block_tree, k, pos, len),
                          tag |-> r.ret.tag,
                          decompressions |-> Len(r.dlog)]
                    ELSE NoLast
        /\ pc' = IF r.ret.tag = "Panic" THEN "aborted" ELSE "returned"
  /\ UNCHANGED <<FileVars, block_tree, input_offset, current_file_position,
                 input_length, current_read_position>>

Read(b, off, len) == Call("read", b, off, len)

\* read_to(b) is read(b, 0, b.len()).
ReadTo(b) == Call("read_to", b, 0, Len(b))

\* The caller is done with the buffer and the result of the call.
Return ==
  /\ pc = "returned"
  /\ pc' = "ready"
  /\ op' = NoOp
  /\ ret' = NoRet
  /\ out' = <<>>
  /\ dlog' = <<>>
  /\ io' = 0
  /\ UNCHANGED <<FileVars, block_tree, input_offset, current_file_position,
                 ReaderVars, HistoryVars>>

\* ------------------------------------------------------------ specification
Next ==
  \/ NewOpen
  \/ NewInsert
  \/ NewBreak
  \/ NewPanic
  \/ \E p \in 0..(input_length + 1) : Seek(p)
  \/ \E b \in Buffers, off \in 0..MaxBuf, len \in 0..MaxBuf : Read(b, off, len)
  \/ \E b \in Buffers : ReadTo(b)
  \/ Return

Spec == Init /\ [][Next]_vars

\* ------------------------------------------------------------ the parser's inputs
\* Index construction alone, on files that end in a block whose header fields
\* vary one by one: the specification under which the block parser is examined.
\* XLEN values around the 6 bytes of the BC subfield.
XLens == {0, 1, 3, 5, 6, 8}

\* A block of one payload byte and ISIZE isize with magic byte m0, XLEN xlen,
\* subfield identifier (66, si2), subfield length slen and BSIZE either the
\* block's true size minus one (short = 0) or short less than that.
HeaderBlock(m0, xlen, si2, slen, short, isize) ==
  MkBlock(m0, xlen, ExtraField(66, si2, slen, xlen + 20 - short, xlen), <<66>>, isize)

\* The last blocks of the parser's files.  BSIZE falls below XLEN + 19 for
\* short = 2; for short = 1 the payload is declared empty.
ParserTails ==
  {HeaderBlock(m0, xlen, si2, slen, short, isize) :
     m0 \in {30, 31}, xlen \in XLens, si2 \in {67, 68}, slen \in {2, 3},
     short \in {0, 2}, isize \in {0, 1}}

ParserFiles ==
  {MkFile(lens, 0, "ok", t) : lens \in LengthSeqs, t \in TailKinds}
    \cup {MkFile(lens, 0, "ok", "eof") \o t : lens \in LengthSeqs, t \in ParserTails}

InitNew ==
  /\ exists = TRUE /\ file \in ParserFiles
  /\ overflow_checks \in BOOLEAN
  /\ pc = "open"
  /\ block_tree = <<>>
  /\ input_offset = 0
  /\ current_file_position = 0
  /\ input_length = 0
  /\ current_read_position = 0
  /\ pos = 0
  /\ cache = None
  /\ op = NoOp
  /\ ret = NoRet
  /\ out = <<>>
  /\ dlog = <<>>
  /\ io = 0
  /\ chunks = NoChunks
  /\ last = NoLast

NextNew == NewOpen \/ NewInsert \/ NewBreak \/ NewPanic

SpecNew == InitNew /\ [][NextNew]_vars

\* new is sequential code whose file reads return: an iteration that can be
\* taken is taken.
SpecNewFair == SpecNew /\ WF_vars(NextNew)

\* ------------------------------------------------------------ vocabulary of the properties
\* The last call was a read (read_to is a read of the whole buffer).
IsRead == op.name \in {"read", "read_to"}

\* The reader has been constructed (and may since have panicked in a read).
Constructed == pc \in {"ready", "returned"} \/ (pc = "aborted" /\ op # NoOp)

Keys == Ascending(DOMAIN block_tree)

\* What the decompressor reports for the indexed block with key k.
Decoded(k) ==
  deflate_decompress(ReadBytes(file, block_tree[k].data_offset, block_tree[k].data_length),
                     block_tree[k].input_length)

\* Every indexed block decompresses to its declared length.
Intact ==
  \A k \in DOMAIN block_tree :
    Decoded(k).tag = "Ok" /\ Decoded(k).n = block_tree[k].input_length

\* The logical stream: the indexed blocks' data in ascending order of key.
Stream == Flatten([i \in 1..Len(Keys) |-> Decoded(Keys[i]).data])

\* [p, p + len) lies inside the cached block.
InsideCached(c, p, len) ==
  c # None /\ c[1].pos <= p /\ p + len <= c[1].pos + Len(c[1].uncompressed_data)

\* The last call read a whole buffer: read(b, 0, b.len()) with b.len() > 0.
WholeBuffer(o) == o.len > 0 /\ o.off = 0 /\ Len(o.b) = o.len

\* ------------------------------------------------------------ C1
\* C1 (as claimed): on an intact file, in every state of the reader (seek
\* puts the position at any p; any block may be cached), a read of n > 0 bytes
\* into an n-byte buffer at a position p with p + n within the stream returns
\* n and fills the buffer with bytes p..p+n of the logical stream.
C1_SeekThenRead ==
  [][(/\ pc = "ready" /\ Intact
      /\ IsRead' /\ WholeBuffer(op') /\ pos + op'.len <= input_length)
     => (ret' = Ok(op'.len) /\ out' = SubSeq(Stream, pos + 1, pos + op'.len))]_vars

\* ------------------------------------------------------------ C2
\* C2 (as claimed): on an intact file, every chunk of a run of successive
\* whole-buffer reads from position 0 returns its full length, and the chunks
\* read so far, concatenated, are the leading bytes of the logical stream
\* (what one read of the whole stream is to return), also when a chunk spans a
\* block boundary.
C2_ChunkedRead ==
  [][(/\ pc = "ready" /\ chunks.valid /\ Intact
      /\ IsRead' /\ WholeBuffer(op') /\ pos + op'.len <= input_length)
     => (/\ ret' = Ok(op'.len)
         /\ chunks'.valid
         /\ chunks'.bytes = SubSeq(Stream, 1, pos + op'.len))]_vars

\* ------------------------------------------------------------ C3
\* C3 (as claimed): a read with length > 0 and offset + length <= capacity,
\* made before the end of an intact stream, returns a count copied > 0, puts
\* the stream's bytes from the position of the call into
\* buffer[offset .. offset + copied), and leaves every other byte of the buffer
\* as it was.
C3_WindowCopy ==
  (/\ IsRead /\ Intact /\ op.len > 0 /\ op.off + op.len <= Len(op.b)
   /\ op.p < input_length)
    => /\ ret.tag = "Ok" /\ ret.n > 0 /\ ret.n <= op.len
       /\ Len(out) = Len(op.b)
       /\ \A i \in 1..Len(op.b) :
            out[i] = IF op.off < i /\ i <= op.off + ret.n
                     THEN Stream[op.p + i - op.off]
                     ELSE op.b[i]

\* ------------------------------------------------------------ C4
\* C4: whenever the position is at or beyond the total uncompressed length, a
\* read with length > 0 and offset + length within the buffer returns Ok(-1),
\* leaves the buffer, the position and the cache unchanged, and neither reads
\* the file nor decompresses.
C4_EndOfStream ==
  [][(/\ pc = "ready" /\ pos >= input_length
      /\ IsRead' /\ op'.len > 0 /\ op'.off + op'.len <= Len(op'.b))
     => (/\ ret' = Ok(-1)
         /\ out' = op'.b
         /\ pos' = pos
         /\ cache' = cache
         /\ dlog' = <<>>
         /\ io' = 0)]_vars

\* A read past the end of a non-empty stream, with a block in the cache,
\* returned the sentinel.
C4_Witness ==
  /\ IsRead /\ op.len > 0 /\ op.off + op.len <= Len(op.b)
  /\ input_length > 0 /\ op.p > input_length /\ cache # None
  /\ ret = Ok(-1)

\* ------------------------------------------------------------ C5
\* A read whose range [pos, pos + length) lies inside the cached block invokes
\* no decompression and no file read and leaves the cache as it is; when its
\* window ends the buffer it returns length and the cached bytes.
ServedFromCache ==
  [][(/\ pc = "ready" /\ IsRead' /\ op'.len > 0
      /\ InsideCached(cache, pos, op'.len))
     => (/\ dlog' = <<>>
         /\ io' = 0
         /\ cache' = cache
         /\ (op'.off + op'.len = Len(op'.b)
               => /\ ret' = Ok(op'.len)
                  /\ pos' = pos + op'.len
                  /\ SubSeq(out', op'.off + 1, op'.off + op'.len)
                       = SubSeq(cache[1].uncompressed_data, pos - cache[1].pos + 1,
                                pos - cache[1].pos + op'.len)))]_vars

\* The previous call was a read with its range inside one block, and this
\* step is a read with its range inside the same block.
SecondReadInBlock ==
  /\ pc = "ready" /\ last.block # -1
  /\ IsRead' /\ op'.len > 0
  /\ InBlock(block_tree, last.block, pos, op'.len)

C6_DecodeMismatchIsError ==
  IsRead =>
    \A i \in 1..Len(dlog) :
      LET k == dlog[i]
          d == Decoded(k)
      IN (d.tag = "Ok" /\ (d.n = 0 \/ d.n # block_tree[k].input_length))
           => /\ i = Len(dlog)
              /\ ret = Err("Did not fully de-compress")
              /\ \A j \in 1..d.n : d.data[j] \notin Range(out)
              /\ (cache = None \/ cache[1].pos # k)

\* A read decompressed a block that produced fewer bytes than declared, but
\* not none.
C6_Witness ==
  /\ IsRead /\ dlog # <<>>
  /\ LET d == Decoded(dlog[Len(dlog)])
     IN d.tag = "Ok" /\ d.n > 0 /\ d.n # block_tree[dlog[Len(dlog)]].input_length

\* ------------------------------------------------------------ C7
\* The uncompressed lengths of the indexed blocks in ascending order of key.
IndexLengths == [i \in 1..Len(Keys) |-> block_tree[Keys[i]].input_length]

IndexWellFormed ==
  /\ \A i \in 1..Len(Keys) : Keys[i] = SumSeq(SubSeq(IndexLengths, 1, i - 1))
  /\ \A i \in 1..(Len(Keys) - 1) : Keys[i] < Keys[i + 1]
  /\ \A k \in DOMAIN block_tree : block_tree[k].input_length > 0
  /\ input_length = SumSeq(IndexLengths)

\* C7: once the reader is constructed, each key of the index is the sum of the
\* uncompressed lengths of the blocks before it (so the first is 0 and the
\* keys increase strictly), every indexed block has a positive uncompressed
\* length, and input_length is the sum of all of them; no seek or read
\* changes the index or input_length.
C7_IndexInvariant ==
  /\ [](Constructed => IndexWellFormed)
  /\ [][Constructed => (block_tree' = block_tree /\ input_length' = input_length)]_vars

\* A reader with at least two indexed blocks has served a read.
C7_Witness ==
  /\ pc = "returned" /\ Cardinality(DOMAIN block_tree) >= 2
  /\ IsRead /\ ret.tag = "Ok" /\ ret.n > 0

\* ------------------------------------------------------------ C8
\* C8 (as claimed): if parsing the block at file offset 0 fails, new returns
\* an error and no reader is produced.
C8_FirstParseFailureFailsNew ==
  (/\ pc \notin {"open", "loop"} /\ exists
   /\ read_block(file, overflow_checks, 0).tag = "Err")
    => pc = "failed"

\* ------------------------------------------------------------ C9
\* The arguments of C9: length 0 and an offset not beyond the capacity.
ZeroLengthRead(o) == o.len = 0 /\ o.off <= Len(o.b)

C10_OutOfBoundsIsError ==
  [][(pc = "ready" /\ IsRead' /\ op'.off + op'.len > Len(op'.b))
     => (/\ ret'.tag = "Err"
         /\ io' = 0
         /\ pos' = pos
         /\ cache' = cache
         /\ out' = op'.b)]_vars

\* ------------------------------------------------------------ C11
\* C11: seek(p) sets the position to p whatever p is, beyond the end of the
\* stream included, and leaves the cache, the index, input_length and
\* current_read_position unchanged, without reading the file;
\* current_read_position is 0 in every state of a constructed reader; and a
\* position at or beyond the end is reported only by the next read (with
\* length > 0 inside its buffer), which returns Ok(-1).
C11_SeekSetsPosition ==
  /\ [][(pc = "ready" /\ op'.name = "seek")
        => (/\ pos' = op'.p
            /\ pc' = "ready"
            /\ cache' = cache
            /\ block_tree' = block_tree
            /\ input_length' = input_length
            /\ current_read_position' = current_read_position
            /\ <<ret, out, dlog, io>>' = <<ret, out, dlog, io>>)]_vars
  /\ [](Constructed => current_read_position = 0)
  /\ [][(/\ pc = "ready" /\ op.name = "seek" /\ op.p >= input_length
          /\ IsRead' /\ op'.len > 0 /\ op'.off + op'.len <= Len(op'.b))
        => ret' = Ok(-1)]_vars

\* A seek beyond the end of a non-empty stream, made while a block is cached.
C11_Witness ==
  /\ pc = "ready" /\ op.name = "seek" /\ op.p > input_length /\ pos = op.p
  /\ input_length > 0 /\ cache # None

\* ------------------------------------------------------------ C12
\* C12 (as claimed): a read with length n > 0 and offset + n within the
\* buffer, made at a position p before the end of the stream, that meets no
\* I/O or decode error returns min(n, input_length - p), advances the position
\* by the count returned, and leaves it at or before input_length; also when
\* fewer than n bytes remain and when the range spans several blocks.
C12_ReturnsMinOfLengthAndRemaining ==
  [][(/\ pc = "ready" /\ pos < input_length
      /\ IsRead' /\ op'.len > 0 /\ op'.off + op'.len <= Len(op'.b)
      /\ ret'.tag # "Err")
     => (/\ ret' = Ok(Min(op'.len, input_length - pos))
         /\ pos' = pos + ret'.n
         /\ pos' <= input_length)]_vars

\* ------------------------------------------------------------ C13
\* The position p lies in the cached block's range.
InCachedRange(c, p) ==
  c # None /\ c[1].pos <= p /\ p < c[1].pos + Len(c[1].uncompressed_data)

\* A read of length > 0 whose window ends its buffer and whose range lies
\* inside one indexed block, made before the end of an intact stream: the
\* reads that one block, or the cache, can serve.
OneBlockRead ==
  /\ pc = "ready" /\ Intact /\ pos < input_length
  /\ IsRead' /\ op'.len > 0 /\ op'.off + op'.len = Len(op'.b)
  /\ \E k \in DOMAIN block_tree : InBlock(block_tree, k, pos, op'.len)

\* C13 (as claimed): the cache lookup of a read hits exactly when the cache is
\* populated and the position lies in the cached block's range: then the
\* cached block is not decompressed; for a position before the cached block's
\* start or at or after its end the lookup misses, and the read is served
\* through the index, decompressing the block that holds the position and
\* returning the stream's bytes.
C13_CacheHitIffInRange ==
  /\ [][(OneBlockRead /\ InCachedRange(cache, pos)) => dlog' = <<>>]_vars
  /\ [][(OneBlockRead /\ cache # None /\ ~InCachedRange(cache, pos))
        => (/\ ret' = Ok(op'.len)
            /\ Len(dlog') = 1 /\ InBlock(block_tree, dlog'[1], pos, op'.len)
            /\ SubSeq(out', op'.off + 1, op'.off + op'.len)
                  = SubSeq(Stream, pos + 1, pos + op'.len))]_vars

\* ------------------------------------------------------------ C14
\* The bytes of a read of len bytes at p that the cache supplies.
FromCache(c, p, len) ==
  IF InCachedRange(c, p) THEN Min(c[1].pos + Len(c[1].uncompressed_data) - p, len) ELSE 0

\* The keys of the indexed blocks whose range intersects [p, p + r).
Intersecting(tree, p, r) ==
  {k \in DOMAIN tree : k < p + r /\ p < k + tree[k].input_length}

\* C14 (as claimed): a read of an intact stream that goes to the index with
\* position p and remaining length r > 0, after the cache has supplied what it
\* holds, reads and decompresses exactly the indexed blocks whose range
\* intersects [p, p + r), each once, in ascending order of key, and so not the
\* cached block that served the first part; a read the cache serves whole
\* decompresses nothing.
C14_DecompressesExactlyTheCoveringBlocks ==
  [][(/\ pc = "ready" /\ Intact /\ pos < input_length
      /\ IsRead' /\ op'.len > 0 /\ op'.off + op'.len <= Len(op'.b))
     => LET served == FromCache(cache, pos, op'.len)
            p == pos + served
            r == op'.len - served
        IN /\ dlog' = IF r > 0 THEN Ascending(Intersecting(block_tree, p, r)) ELSE <<>>
           /\ io' = Len(dlog')]_vars

\* ------------------------------------------------------------ C15
\* The cache is empty, or it holds one block of the index: its offset is a key
\* and its data has that block's uncompressed length.
CacheIsIndexedBlock ==
  cache = None
    \/ /\ Len(cache) = 1
       /\ cache[1].pos \in DOMAIN block_tree
       /\ Len(cache[1].uncompressed_data) = block_tree[cache[1].pos].input_length

\* C15: in every state the cache is empty or holds exactly one indexed block
\* with all of its data; it is empty when new returns; only a read that
\* decompresses a block changes it; and after a read that decompressed blocks
\* and returned Ok it holds the last, highest-offset block that read
\* decompressed, with the data the decompressor produced.
C15_CacheInvariant ==
  /\ []CacheIsIndexedBlock
  /\ [][(pc = "loop" /\ pc' = "ready") => cache' = None]_vars
  /\ [][cache' # cache => (pc = "ready" /\ IsRead' /\ dlog' # <<>>)]_vars
  /\ [][(pc = "ready" /\ IsRead' /\ ret'.tag = "Ok" /\ dlog' # <<>>)
        => (/\ cache' # None
            /\ cache'[1].pos = dlog'[Len(dlog')]
            /\ \A i \in 1..Len(dlog') : dlog'[i] <= cache'[1].pos
            /\ cache'[1].uncompressed_data = Decoded(cache'[1].pos).data)]_vars

\* In a run of successive reads from position 0, a read that followed the
\* reads of the first block decompressed the second block, returned bytes and
\* left the second block in the cache in place of the first.
C15_Witness ==
  /\ IsRead /\ ret.tag = "Ok" /\ ret.n > 0 /\ Len(dlog) = 1 /\ dlog[1] > 0
  /\ cache # None /\ cache[1].pos = dlog[1]
  /\ chunks.valid /\ Len(chunks.bytes) > ret.n

\* ------------------------------------------------------------ C16
\* The blocks parsed one after the other from file offset at and uncompressed
\* offset g, each found at the end of the one before, up to the first offset
\* at which the parser yields no descriptor.
RECURSIVE PrefixIndex(_, _, _, _)
PrefixIndex(f, chk, at, g) ==
  LET r == read_block(f, chk, at) IN
  IF r.tag # "Some" THEN <<>>
  ELSE (g :> r.block)
         @@ PrefixIndex(f, chk, at + r.block.block_size, g + r.block.input_length)

\* C16 (as claimed): when the block at file offset 0 parses (to a descriptor
\* or to the terminal block), new ends by returning a reader, whatever follows
\* in the file: it stops at the first terminal block and, silently, at the
\* first block that fails to parse, and the index then holds exactly the
\* blocks before that one, each keyed by the sum of the uncompressed lengths
\* before it and located at the sum of the on-disk sizes before it.
C16_IndexIsMaximalPrefix ==
  (/\ exists /\ pc \notin {"open", "loop"}
   /\ read_block(file, overflow_checks, 0).tag \in {"Some", "None"})
    => /\ Constructed
       /\ block_tree = PrefixIndex(file, overflow_checks, 0, 0)

\* ------------------------------------------------------------ C17
\* The 12 header bytes of the block at file offset at, and its extra field
\* (the XLEN bytes that follow) as far as the file holds them.
HeaderAt(f, at) == SubSeq(f, at + 1, at + 12)

XlenAt(f, at) == HeaderAt(f, at)[11] + HeaderAt(f, at)[12] * 256

ExtraAt(f, at) == SubSeq(f, at + 13, Min(at + 12 + XlenAt(f, at), Len(f)))

\* The header at file offset at is invalid: a magic byte differs, or the
\* extra field does not begin with the identifier 66, 67, or the two bytes
\* after the identifier are not the length 2; bytes that XLEN leaves out of
\* the extra field are bytes that differ.
InvalidHeaderAt(f, at) ==
  \/ SubSeq(HeaderAt(f, at), 1, 4) # <<31, 139, 8, 4>>
  \/ SubSeq(ExtraAt(f, at), 1, Min(2, Len(ExtraAt(f, at)))) # <<66, 67>>
  \/ SubSeq(ExtraAt(f, at), 3, Min(4, Len(ExtraAt(f, at)))) # <<2, 0>>

\* C17 (as claimed): for every block the index loop parses, with whatever
\* XLEN, when the header's magic bytes, subfield identifier or subfield length
\* is wrong the parser returns an error value: no descriptor, no terminal
\* signal, no panic.
C17_InvalidHeaderIsFormatError ==
  (/\ pc = "loop" /\ ReadOk(file, current_file_position, 12)
   /\ InvalidHeaderAt(file, current_file_position))
    => read_block(file, overflow_checks, current_file_position).tag = "Err"

\* ------------------------------------------------------------ C18
\* BSIZE of the block at file offset at (bytes 4-5 of its extra field).
BsizeAt(f, at) == ExtraAt(f, at)[5] + ExtraAt(f, at)[6] * 256

\* The 32-bit little-endian value at file offset at.
U32At(f, at) ==
  f[at + 1] + f[at + 2] * 256 + f[at + 3] * 65536 + f[at + 4] * 16777216

\* C18 (as claimed): for every block the index loop parses whose header is
\* valid and holds BSIZE (XLEN >= 6, extra field present in full), the parser
\* does not panic, and with data_length = BSIZE - XLEN - 19 as an integer and
\* ISIZE the four bytes at data_offset + data_length + 4 (when the file holds
\* them) it signals the terminal block exactly when ISIZE = 0 and otherwise
\* returns the descriptor with data_offset = block start + 12 + XLEN, that
\* data_length, block_size = BSIZE + 1 and input_length = ISIZE.
C18_DescriptorFields ==
  LET at == current_file_position
      r == read_block(file, overflow_checks, at)
  IN (/\ pc = "loop" /\ ReadOk(file, at, 12) /\ ~InvalidHeaderAt(file, at)
      /\ XlenAt(file, at) >= 6 /\ ReadOk(file, at + 12, XlenAt(file, at)))
       => LET xlen == XlenAt(file, at)
              bsize == BsizeAt(file, at)
              data_offset == at + 12 + xlen
              data_length == bsize - xlen - 19
              isize_at == data_offset + data_length + 4
          IN /\ r.tag # "Panic"
             /\ ReadOk(file, isize_at, 4)
                  => /\ (r.tag = "None") <=> (U32At(file, isize_at) = 0)
                     /\ U32At(file, isize_at) # 0
                          => r = BlockSome(BgzfBlock(data_offset, data_length,
                                                     U32At(file, isize_at), bsize + 1))

\* ------------------------------------------------------------ C19
\* C19 (as claimed): on a reader whose index holds at least one block, after
\* any sequence of seeks and reads, a read with offset + length within its
\* buffer returns a value (a count, the end-of-stream sentinel or an error)
\* and does not panic: no copy between slices of different lengths, no slice
\* range outside its vector, no unsigned underflow, no floor lookup that
\* finds nothing.
C19_ReadNeverPanics ==
  [][(/\ pc = "ready" /\ DOMAIN block_tree # {}
      /\ IsRead' /\ op'.off + op'.len <= Len(op'.b))
     => (ret'.tag \in {"Ok", "Err"} /\ pc' = "returned")]_vars

\* ------------------------------------------------------------ C20
\* C20: on every file new leaves its loop; every iteration that indexes a
\* block moves the file offset forward by that block's size on disk,
\* BSIZE + 1 >= 1; and the loop is left at a block for which the parser
\* yields no descriptor: the terminal block, a block that fails to parse, or a
\* block the file ends before.
C20_NewTerminates ==
  /\ <>(pc \notin {"open", "loop"})
  /\ [][(pc = "loop" /\ pc' = "loop")
        => (/\ current_file_position' > current_file_position
            /\ current_file_position'
                 = current_file_position + BsizeAt(file, current_file_position) + 1)]_vars
  /\ [][(pc = "loop" /\ pc' # "loop")
        => read_block(file, overflow_checks, current_file_position).tag # "Some"]_vars

\* new has indexed two blocks and left the loop because the file ends there.
C20_Witness ==
  /\ pc = "ready" /\ Cardinality(DOMAIN block_tree) = 2
  /\ ~ReadOk(file, current_file_position, 12)

====
